---- MODULE Spec2Model ----
(***************************************************************************)
(* Model of the retrieval pipeline of personal-google-mcp:                 *)
(*   src/src/classroom.rs  ClassroomClient (memory tier + disk tier,       *)
(*                         five cached course operations)                   *)
(*   src/src/drive.rs      DriveClient (memory tier, read_material)        *)
(* Strings are sequences of one-character strings, so that key formatting  *)
(* and identifier parsing are computed, not assumed.  Option<T> is a       *)
(* sequence of length at most one; Result<T,E> is a record with field ok.  *)
(***************************************************************************)
EXTENDS Integers, Sequences, FiniteSets, TLC

VARIABLES
    memory_cache,   \* ClassroomClient.memory_cache: key -> [value, insertedAt]
    drive_cache,    \* DriveClient.memory_cache: file id -> [value, insertedAt]
    disk,           \* files under cache_dir: path -> file text
    now,            \* the clock the memory tiers read, in seconds
    ticks,          \* number of clock advances so far
    nops,           \* number of tool requests served so far
    last,           \* the request served last: operation, argument, events, result
    inflight,       \* requests in flight at once: task -> where it is in its handler
    handed          \* documents handed to write_disk_cache so far: key -> set

vars == <<memory_cache, drive_cache, disk, now, ticks, nops, last, inflight, handed>>

----------------------------------------------------------------------------
\* Bounds of the exploration.

MaxOps == 2
MaxTicks == 2
MaxCourseWork == 6
MaxRequests == 3
MaxPieces == 3
MaxSlack == 4

----------------------------------------------------------------------------
\* Option and Result.

None == <<>>

Some(x) == <<x>>

Ok(v) == [ok |-> TRUE, val |-> v]

Err(e) == [ok |-> FALSE, err |-> e]

\* AppError variants (error.rs).
GoogleApi(msg) == [variant |-> "GoogleApi", msg |-> msg]

DriveApi(msg) == [variant |-> "DriveApi", msg |-> msg]

InvalidInput(msg) == [variant |-> "InvalidInput", msg |-> msg]

Min(a, b) == IF a <= b THEN a ELSE b

Range(s) == {s[i] : i \in 1..Len(s)}

\* e occurs in msg as a contiguous run.
Carries(msg, e) ==
    \E i \in 0..(Len(msg) - Len(e)) : SubSeq(msg, i + 1, i + Len(e)) = e

----------------------------------------------------------------------------
\* The memory tier (moka Cache built with time_to_live; Cache::get hides an
\* entry from the instant its age reaches the time to live, insert replaces
\* the entry and restarts its age).

TTL == 300

DriveTTL == 300

\* Variant: the entry is still returned at the instant its age equals the
\* time to live.
MemGetInclusive(cache, key, ttl, t) ==
    IF key \in DOMAIN cache /\ t <= cache[key].insertedAt + ttl
    THEN Some(cache[key].value)
    ELSE None

MemGet(cache, key, ttl, t) ==
    IF key \in DOMAIN cache /\ t < cache[key].insertedAt + ttl
    THEN Some(cache[key].value)
    ELSE None

MemInsert(cache, key, value, t) ==
    [k \in (DOMAIN cache) \cup {key} |->
        IF k = key THEN [value |-> value, insertedAt |-> t] ELSE cache[k]]

EmptyCache == [k \in {} |-> None]

----------------------------------------------------------------------------
\* The disk tier.

DotJson == <<".", "j", "s", "o", "n">>

\* cache_dir.join(format!("{key}.json"))
disk_path(key) == key \o DotJson

\* The text of a file is a sequence of blocks of bytes: an opening bracket,
\* the text of one item of an array, a closing bracket, zero bytes, or
\* bytes that are no JSON.
Open == [tok |-> "["]

Close == [tok |-> "]"]

ItemText(item) == [tok |-> "item", v |-> item]

Nul == [tok |-> "NUL"]

Garbage == <<[tok |-> "garbage"]>>

\* serde_json::to_string_pretty on an array Value (the documents written to
\* disk are arrays): the bracketed texts of its items.
to_string_pretty(value) ==
    <<Open>> \o [i \in 1..Len(value) |-> ItemText(value[i])] \o <<Close>>

\* serde_json::from_str: the array, if the text is one opening bracket, the
\* texts of items and one closing bracket, with nothing after it.
from_str(data) ==
    IF /\ Len(data) >= 2
       /\ data[1].tok = "["
       /\ data[Len(data)].tok = "]"
       /\ \A i \in 2..(Len(data) - 1) : data[i].tok = "item"
    THEN Ok([i \in 1..(Len(data) - 2) |-> data[i + 1].v])
    ELSE Err("syntax")

read_disk_cache(files, key) ==
    LET path == disk_path(key)
    IN IF path \in DOMAIN files
       THEN LET parsed == from_str(files[path])
            IN IF parsed.ok THEN Some(parsed.val) ELSE None
       ELSE None

FileWrite(files, path, data) ==
    [p \in (DOMAIN files) \cup {path} |-> IF p = path THEN data ELSE files[p]]

\* fs is what the file system does with the write: "ok" stores the text,
\* "err" fails leaving the directory as it was, "partial" fails after the
\* file was truncated and partly written; ser = FALSE is to_string_pretty
\* failing.  None of the failures is reported to the caller.
WriteOutcomes == {[ser |-> TRUE, fs |-> "ok"], [ser |-> TRUE, fs |-> "err"],
                  [ser |-> TRUE, fs |-> "partial"], [ser |-> FALSE, fs |-> "ok"]}

WriteSucceeds(w) == w.ser /\ w.fs = "ok"

\* Variant: the file is created only if it does not exist yet.
write_disk_cache_create_new(files, key, value, w) ==
    LET path == disk_path(key)
    IN IF w.ser /\ path \notin DOMAIN files
       THEN CASE w.fs = "ok" -> FileWrite(files, path, to_string_pretty(value))
              [] w.fs = "partial" -> FileWrite(files, path, Garbage)
              [] OTHER -> files
       ELSE files

write_disk_cache(files, key, value, w) ==
    LET path == disk_path(key)
    IN IF w.ser
       THEN CASE w.fs = "ok" -> FileWrite(files, path, to_string_pretty(value))
              [] w.fs = "partial" -> FileWrite(files, path, Garbage)
              [] OTHER -> files
       ELSE files

----------------------------------------------------------------------------
\* Cache keys.

key_courses == <<"c", "o", "u", "r", "s", "e", "s">>

PfxCourseDetails ==
    <<"c", "o", "u", "r", "s", "e", "_", "d", "e", "t", "a", "i", "l", "s", ":">>

PfxAssignments == <<"a", "s", "s", "i", "g", "n", "m", "e", "n", "t", "s", ":">>

PfxMaterials == <<"m", "a", "t", "e", "r", "i", "a", "l", "s", "_">>

PfxTopics == <<"t", "o", "p", "i", "c", "s", "_">>

key_course_details(course_id) == PfxCourseDetails \o course_id

key_assignments(course_id) == PfxAssignments \o course_id

key_materials(course_id) == PfxMaterials \o course_id

\* Variant: the topics are keyed like the materials.
key_topics_like_materials(course_id) == PfxMaterials \o course_id

key_topics(course_id) == PfxTopics \o course_id

----------------------------------------------------------------------------
\* Events of one request, in program order.

\* The memory tier returned the entry of key.
EvHit(key) == [ev |-> "mem_get", what |-> key, ok |-> TRUE, expired |-> FALSE]

\* The memory tier returned nothing for key: it holds no entry, or one that
\* has expired.
EvMiss(cache, key) ==
    [ev |-> "mem_get", what |-> key, ok |-> FALSE, expired |-> key \in DOMAIN cache]

\* read_disk_cache returned a document, or nothing; it warns of a corrupted
\* file when the file is there and does not parse.
EvDiskRead(files, key) ==
    [ev |-> "disk_read", what |-> key, ok |-> read_disk_cache(files, key) # None,
     corrupted |-> disk_path(key) \in DOMAIN files /\ read_disk_cache(files, key) = None]

\* A remote call, with what it returned.
EvCall(api, arg, r) == [ev |-> "call", what |-> <<api, arg>>, ok |-> r.ok, resp |-> r]

\* A dependent call is sent off; its EvCall follows when it has returned.
EvIssue(api, arg) == [ev |-> "issue", what |-> <<api, arg>>, ok |-> TRUE]

EvInsert(key) == [ev |-> "mem_insert", what |-> key, ok |-> TRUE]

EvDiskWrite(key, ok) == [ev |-> "disk_write", what |-> key, ok |-> ok]

EvReturn(ok) == [ev |-> "return", what |-> <<>>, ok |-> ok]

IsCall(e) == e.ev = "call"

Calls(events) == SelectSeq(events, IsCall)

\* What a handler did: the tiers it leaves, its events, its result.
Out(mem, files, events, result) ==
    [mem |-> mem, disk |-> files,
     events |-> events \o <<EvReturn(result.ok)>>, result |-> result]

----------------------------------------------------------------------------
\* Responses of the remote course service.

\* Responses of the remote services.  A call fails with one of the upstream
\* messages or returns the data the service holds when the request is
\* served; the service's data is revised between requests, so the data of
\* request number n carries revision n.

UpstreamMsgs == {<<"timeout">>, <<"HTTP", "403">>}

Failures == {Err(m) : m \in UpstreamMsgs}

Revision == nops + 1

CourseResponses(course_id) ==
    Failures \cup {Ok([id |-> course_id, rev |-> Revision])}

\* The list field of a list response is optional.
ListResponses(tag) ==
    Failures \cup {Ok(None), Ok(Some(<<[item |-> tag, rev |-> Revision]>>))}

DependentResponses(tag) ==
    {Err(<<"timeout">>), Ok(None), Ok(Some(<<[item |-> tag, rev |-> Revision]>>))}

\* Option::unwrap_or_default on an optional list.
unwrap_or_default(o) == IF o = None THEN <<>> ELSE o[1]

----------------------------------------------------------------------------
\* ClassroomClient::list_courses

\* Variant: the course list is written to the disk tier as well.
list_courses_miss_persisting(r) ==
    LET key == key_courses
    IN IF ~r.ok
       THEN Out(memory_cache, disk,
                <<EvMiss(memory_cache, key), EvCall("courses.list", <<>>, r)>>,
                Err(GoogleApi(r.err)))
       ELSE LET value == unwrap_or_default(r.val)
            IN Out(MemInsert(memory_cache, key, value, now),
                   write_disk_cache(disk, key, value, [ser |-> TRUE, fs |-> "ok"]),
                   <<EvMiss(memory_cache, key), EvCall("courses.list", <<>>, r),
                     EvInsert(key)>>,
                   Ok(value))

list_courses_miss(r) ==
    LET key == key_courses
    IN IF ~r.ok
       THEN Out(memory_cache, disk,
                <<EvMiss(memory_cache, key), EvCall("courses.list", <<>>, r)>>,
                Err(GoogleApi(r.err)))
       ELSE LET value == unwrap_or_default(r.val)
            IN Out(MemInsert(memory_cache, key, value, now), disk,
                   <<EvMiss(memory_cache, key), EvCall("courses.list", <<>>, r),
                     EvInsert(key)>>,
                   Ok(value))

list_courses(r) ==
    LET key == key_courses
        cached == MemGet(memory_cache, key, TTL, now)
    IN IF cached # None
       THEN Out(memory_cache, disk, <<EvHit(key)>>, Ok(cached[1]))
       ELSE list_courses_miss(r)

\* ClassroomClient::get_course_details

\* The match on the announcements call: the list it returned, or json!([]).
AnnouncementsOrEmpty(ra) == IF ra.ok THEN unwrap_or_default(ra.val) ELSE <<>>

\* Variant: a failed announcements call fails the request, as a failed
\* courses.get does.
get_course_details_strict(course_id, rc, ra) ==
    LET key == key_course_details(course_id)
        value == [course |-> rc.val, announcements |-> AnnouncementsOrEmpty(ra)]
    IN IF ~rc.ok
       THEN Out(memory_cache, disk,
                <<EvMiss(memory_cache, key), EvCall("courses.get", course_id, rc)>>,
                Err(GoogleApi(rc.err)))
       ELSE IF ~ra.ok
       THEN Out(memory_cache, disk,
                <<EvMiss(memory_cache, key), EvCall("courses.get", course_id, rc),
                  EvCall("announcements.list", course_id, ra)>>,
                Err(GoogleApi(ra.err)))
       ELSE Out(MemInsert(memory_cache, key, value, now), disk,
                <<EvMiss(memory_cache, key), EvCall("courses.get", course_id, rc),
                  EvCall("announcements.list", course_id, ra),
                  EvInsert(key)>>,
                Ok(value))

\* Variant: a document whose announcements call failed is returned but not
\* kept, so that the next request tries again.
get_course_details_keeping_complete(course_id, rc, ra) ==
    LET key == key_course_details(course_id)
        value == [course |-> rc.val, announcements |-> AnnouncementsOrEmpty(ra)]
        before == <<EvMiss(memory_cache, key), EvCall("courses.get", course_id, rc)>>
    IN IF ~rc.ok
       THEN Out(memory_cache, disk, before, Err(GoogleApi(rc.err)))
       ELSE IF ~ra.ok
       THEN Out(memory_cache, disk,
                before \o <<EvCall("announcements.list", course_id, ra)>>,
                Ok(value))
       ELSE Out(MemInsert(memory_cache, key, value, now), disk,
                before \o <<EvCall("announcements.list", course_id, ra),
                            EvInsert(key)>>,
                Ok(value))

get_course_details_miss(course_id, rc, ra) ==
    LET key == key_course_details(course_id)
    IN IF ~rc.ok
       THEN Out(memory_cache, disk,
                <<EvMiss(memory_cache, key), EvCall("courses.get", course_id, rc)>>,
                Err(GoogleApi(rc.err)))
       ELSE LET value == [course |-> rc.val,
                          announcements |-> AnnouncementsOrEmpty(ra)]
            IN Out(MemInsert(memory_cache, key, value, now), disk,
                   <<EvMiss(memory_cache, key), EvCall("courses.get", course_id, rc),
                     EvCall("announcements.list", course_id, ra),
                     EvInsert(key)>>,
                   Ok(value))

get_course_details(course_id, rc, ra) ==
    LET key == key_course_details(course_id)
        cached == MemGet(memory_cache, key, TTL, now)
    IN IF cached # None
       THEN Out(memory_cache, disk, <<EvHit(key)>>, Ok(cached[1]))
       ELSE get_course_details_miss(course_id, rc, ra)

----------------------------------------------------------------------------
\* ClassroomClient::get_assignments

\* course_work_list.iter().take(5) and .skip(5)
TakeCount == 5

SkipCount == 5

Take(s, n) == SubSeq(s, 1, Min(n, Len(s)))

Skip(s, n) == SubSeq(s, n + 1, Len(s))

\* Variant: the submissions are never kept.
SubmissionsAlwaysEmpty(r) == <<>>

\* The match on the submissions call: the list it returned, or json!([]).
SubmissionsOrEmpty(r) == IF r.ok THEN unwrap_or_default(r.val) ELSE <<>>

AssignmentEntry(cw, submissions) == [courseWork |-> cw, submissions |-> submissions]

\* The positions from i on of the items that have an id.
RECURSIVE PositionsWithId(_, _)
PositionsWithId(taken, i) ==
    IF i > Len(taken) THEN <<>>
    ELSE (IF taken[i].id = None THEN <<>> ELSE <<i>>) \o PositionsWithId(taken, i + 1)

\* Variant: the submissions calls are all sent off at once and awaited
\* together.
SubmissionsJoinAll(course_id, taken, rs, i) ==
    LET at == PositionsWithId(taken, i)
    IN [assignments |->
            [j \in 1..Len(at) |->
                AssignmentEntry(taken[at[j]], SubmissionsOrEmpty(rs[at[j]]))],
        events |->
            [j \in 1..Len(at) |->
                EvIssue("submissions.list", <<course_id, taken[at[j]].id[1]>>)]
            \o [j \in 1..Len(at) |->
                EvCall("submissions.list", <<course_id, taken[at[j]].id[1]>>,
                       rs[at[j]])]]

\* The first loop, from item i of the taken prefix on: an item without an id
\* is skipped by `continue`; for every other item the submissions call is
\* issued and one entry is pushed.  rs[i] is what the call for item i returns.
RECURSIVE SubmissionsLoop(_, _, _, _)
SubmissionsLoop(course_id, taken, rs, i) ==
    IF i > Len(taken)
    THEN [assignments |-> <<>>, events |-> <<>>]
    ELSE LET rest == SubmissionsLoop(course_id, taken, rs, i + 1)
             cw == taken[i]
         IN IF cw.id = None
            THEN rest
            ELSE [assignments |->
                      <<AssignmentEntry(cw, SubmissionsOrEmpty(rs[i]))>>
                          \o rest.assignments,
                  events |->
                      <<EvIssue("submissions.list", <<course_id, cw.id[1]>>),
                        EvCall("submissions.list", <<course_id, cw.id[1]>>, rs[i])>>
                          \o rest.events]

\* The second loop: the remaining coursework, without submissions.
RemainingLoop(skipped) ==
    [i \in 1..Len(skipped) |-> AssignmentEntry(skipped[i], <<>>)]

get_assignments_miss(course_id, rc, rcw, rs) ==
    LET key == key_assignments(course_id)
    IN IF ~rc.ok
       THEN Out(memory_cache, disk,
                <<EvMiss(memory_cache, key), EvCall("courses.get", course_id, rc)>>,
                Err(GoogleApi(rc.err)))
       ELSE LET course_work_list == IF rcw.ok THEN unwrap_or_default(rcw.val) ELSE <<>>
                first == SubmissionsLoop(course_id,
                                         Take(course_work_list, TakeCount), rs, 1)
                assignments ==
                    first.assignments
                        \o RemainingLoop(Skip(course_work_list, SkipCount))
                value == [course |-> rc.val, assignments |-> assignments]
            IN Out(MemInsert(memory_cache, key, value, now), disk,
                   <<EvMiss(memory_cache, key), EvCall("courses.get", course_id, rc),
                     EvCall("courseWork.list", course_id, rcw)>>
                       \o first.events \o <<EvInsert(key)>>,
                   Ok(value))

\* Variant: the cache check is left out.
get_assignments_uncached(course_id, rc, rcw, rs) ==
    get_assignments_miss(course_id, rc, rcw, rs)

get_assignments(course_id, rc, rcw, rs) ==
    LET key == key_assignments(course_id)
        cached == MemGet(memory_cache, key, TTL, now)
    IN IF cached # None
       THEN Out(memory_cache, disk, <<EvHit(key)>>, Ok(cached[1]))
       ELSE get_assignments_miss(course_id, rc, rcw, rs)

----------------------------------------------------------------------------
\* ClassroomClient::get_course_materials

MsgMaterials == <<"failed to fetch course materials for ">>

MsgTopics == <<"failed to fetch topics for ">>

MsgSep == <<": ">>

\* Variant: a failed disk write fails the request.
SaveOrFail(key, value, w, before) ==
    IF WriteSucceeds(w)
    THEN Out(MemInsert(memory_cache, key, value, now),
             write_disk_cache(disk, key, value, w),
             before \o <<EvInsert(key), EvDiskWrite(key, TRUE)>>,
             Ok(value))
    ELSE Out(memory_cache, write_disk_cache(disk, key, value, w),
             before \o <<EvDiskWrite(key, FALSE)>>,
             Err([variant |-> "Io", msg |-> <<"write failed">>]))

\* Variant: the disk write is handed to a background task and the result is
\* returned at once; the file is not yet written when the request returns.
SaveDetached(key, value, w, before) ==
    [mem |-> MemInsert(memory_cache, key, value, now),
     disk |-> disk,
     events |-> before \o <<EvInsert(key), EvReturn(TRUE),
                             EvDiskWrite(key, WriteSucceeds(w))>>,
     result |-> Ok(value)]

\* "Save to both caches" and return, in get_course_materials and
\* get_course_topics alike: the memory insert, then the disk write, which
\* has ended one way or the other when the result is returned.
SaveToBothCaches(key, value, w, before) ==
    Out(MemInsert(memory_cache, key, value, now),
        write_disk_cache(disk, key, value, w),
        before \o <<EvInsert(key), EvDiskWrite(key, WriteSucceeds(w))>>,
        Ok(value))

\* Variant: a failed fetch leaves an empty list behind in the memory tier.
get_course_materials_fetch_remembering(course_id, r, w) ==
    LET key == key_materials(course_id)
        before == <<EvMiss(memory_cache, key), EvDiskRead(disk, key),
                    EvCall("courseWorkMaterials.list", course_id, r)>>
    IN IF ~r.ok
       THEN Out(MemInsert(memory_cache, key, <<>>, now), disk, before,
                Err(GoogleApi(MsgMaterials \o course_id \o MsgSep \o r.err)))
       ELSE SaveToBothCaches(key, unwrap_or_default(r.val), w, before)

\* Step 3 of get_course_materials: fetch from the API, save to both caches.
get_course_materials_fetch(course_id, r, w) ==
    LET key == key_materials(course_id)
    IN IF ~r.ok
       THEN Out(memory_cache, disk,
                <<EvMiss(memory_cache, key), EvDiskRead(disk, key),
                  EvCall("courseWorkMaterials.list", course_id, r)>>,
                Err(GoogleApi(MsgMaterials \o course_id \o MsgSep \o r.err)))
       ELSE SaveToBothCaches(key, unwrap_or_default(r.val), w,
                             <<EvMiss(memory_cache, key), EvDiskRead(disk, key),
                               EvCall("courseWorkMaterials.list", course_id, r)>>)

\* Variant: no disk tier on the read path.
get_course_materials_memory_only(course_id, r, w) ==
    get_course_materials_fetch(course_id, r, w)

\* Variant: a disk hit is returned without backfilling the memory tier.
get_course_materials_no_backfill(course_id, r, w) ==
    LET key == key_materials(course_id)
        on_disk == read_disk_cache(disk, key)
    IN IF on_disk # None
       THEN Out(memory_cache, disk,
                <<EvMiss(memory_cache, key), EvDiskRead(disk, key)>>,
                Ok(on_disk[1]))
       ELSE get_course_materials_fetch(course_id, r, w)

\* Step 2 of get_course_materials: the disk cache, then step 3.
get_course_materials_miss(course_id, r, w) ==
    LET key == key_materials(course_id)
        on_disk == read_disk_cache(disk, key)
    IN IF on_disk # None
       THEN Out(MemInsert(memory_cache, key, on_disk[1], now), disk,
                <<EvMiss(memory_cache, key), EvDiskRead(disk, key), EvInsert(key)>>,
                Ok(on_disk[1]))
       ELSE get_course_materials_fetch(course_id, r, w)

get_course_materials(course_id, r, w) ==
    LET key == key_materials(course_id)
        cached == MemGet(memory_cache, key, TTL, now)
    IN IF cached # None
       THEN Out(memory_cache, disk, <<EvHit(key)>>, Ok(cached[1]))
       ELSE get_course_materials_miss(course_id, r, w)

\* ClassroomClient::get_course_topics
get_course_topics_fetch(course_id, r, w) ==
    LET key == key_topics(course_id)
    IN IF ~r.ok
       THEN Out(memory_cache, disk,
                <<EvMiss(memory_cache, key), EvDiskRead(disk, key),
                  EvCall("topics.list", course_id, r)>>,
                Err(GoogleApi(MsgTopics \o course_id \o MsgSep \o r.err)))
       ELSE SaveToBothCaches(key, unwrap_or_default(r.val), w,
                             <<EvMiss(memory_cache, key), EvDiskRead(disk, key),
                               EvCall("topics.list", course_id, r)>>)

get_course_topics_miss(course_id, r, w) ==
    LET key == key_topics(course_id)
        on_disk == read_disk_cache(disk, key)
    IN IF on_disk # None
       THEN Out(MemInsert(memory_cache, key, on_disk[1], now), disk,
                <<EvMiss(memory_cache, key), EvDiskRead(disk, key), EvInsert(key)>>,
                Ok(on_disk[1]))
       ELSE get_course_topics_fetch(course_id, r, w)

get_course_topics(course_id, r, w) ==
    LET key == key_topics(course_id)
        cached == MemGet(memory_cache, key, TTL, now)
    IN IF cached # None
       THEN Out(memory_cache, disk, <<EvHit(key)>>, Ok(cached[1]))
       ELSE get_course_topics_miss(course_id, r, w)

----------------------------------------------------------------------------
\* Strings (str::trim, starts_with, find, split) on sequences of characters.

IsWhitespace(c) == c \in {" ", "\t", "\n"}

RECURSIVE trim_start(_)
trim_start(s) ==
    IF s # <<>> /\ IsWhitespace(Head(s)) THEN trim_start(Tail(s)) ELSE s

RECURSIVE trim_end(_)
trim_end(s) ==
    IF s # <<>> /\ IsWhitespace(s[Len(s)])
    THEN trim_end(SubSeq(s, 1, Len(s) - 1))
    ELSE s

trim(s) == trim_end(trim_start(s))

starts_with(s, p) == Len(s) >= Len(p) /\ SubSeq(s, 1, Len(p)) = p

\* str::find: the byte offset (from 0) of the first occurrence, if any.
find(s, pat) ==
    LET hits == {i \in 0..(Len(s) - Len(pat)) : SubSeq(s, i + 1, i + Len(pat)) = pat}
    IN IF hits = {} THEN None ELSE Some(CHOOSE i \in hits : \A j \in hits : i <= j)

\* s.split(sep).next().unwrap_or(""): the text before the first sep.
first_segment(s, sep) ==
    LET hits == {i \in 1..Len(s) : s[i] = sep}
    IN IF hits = {} THEN s
       ELSE SubSeq(s, 1, (CHOOSE i \in hits : \A j \in hits : i <= j) - 1)

\* s[pos..] for a byte offset pos counted from 0.
from_offset(s, pos) == SubSeq(s, pos + 1, Len(s))

Lowercase ==
    {"a", "b", "c", "d", "e", "f", "g", "h", "i", "j", "k", "l", "m",
     "n", "o", "p", "q", "r", "s", "t", "u", "v", "w", "x", "y", "z"}

Uppercase == {"A", "B", "C", "X", "Y", "Z"}

Digits == {"0", "1", "2", "3", "4", "5", "6", "7", "8", "9"}

\* char::is_alphanumeric is the Unicode property: letters beyond ASCII count.
NonAsciiLetters == {"é"}

is_alphanumeric(c) == c \in Lowercase \cup Uppercase \cup Digits \cup NonAsciiLetters

----------------------------------------------------------------------------
\* drive.rs: parse_file_id

SchemeHttp == <<"h", "t", "t", "p", ":", "/", "/">>

SchemeHttps == <<"h", "t", "t", "p", "s", ":", "/", "/">>

PatD == <<"/", "d", "/">>

PatId == <<"i", "d", "=">>

MsgEmptyInput == <<"file_id_or_url cannot be empty">>

MsgNoIdInUrl == <<"could not extract file ID from URL: ">>

MsgInvalidId == <<"invalid file ID or URL: ">>

\* Variant: the id= pattern is tried before the /d/ pattern.
parse_file_id_query_first(raw) ==
    LET input == trim(raw)
        pos_d == find(input, PatD)
        id_d == IF pos_d = None THEN <<>>
                ELSE first_segment(from_offset(input, pos_d[1] + 3), "/")
        pos_q == find(input, PatId)
        id_q == IF pos_q = None THEN <<>>
                ELSE first_segment(from_offset(input, pos_q[1] + 3), "&")
    IN IF input = <<>>
       THEN Err(InvalidInput(MsgEmptyInput))
       ELSE IF starts_with(input, SchemeHttp) \/ starts_with(input, SchemeHttps)
       THEN IF id_q # <<>> THEN Ok(id_q)
            ELSE IF id_d # <<>> THEN Ok(id_d)
            ELSE Err(InvalidInput(MsgNoIdInUrl \o input))
       ELSE IF \A i \in 1..Len(input) :
                   is_alphanumeric(input[i]) \/ input[i] = "-" \/ input[i] = "_"
       THEN Ok(input)
       ELSE Err(InvalidInput(MsgInvalidId \o input))

parse_file_id(raw) ==
    LET input == trim(raw)
        pos_d == find(input, PatD)
        id_d == IF pos_d = None THEN <<>>
                ELSE first_segment(from_offset(input, pos_d[1] + 3), "/")
        pos_q == find(input, PatId)
        id_q == IF pos_q = None THEN <<>>
                ELSE first_segment(from_offset(input, pos_q[1] + 3), "&")
    IN IF input = <<>>
       THEN Err(InvalidInput(MsgEmptyInput))
       ELSE IF starts_with(input, SchemeHttp) \/ starts_with(input, SchemeHttps)
       THEN IF id_d # <<>> THEN Ok(id_d)
            ELSE IF id_q # <<>> THEN Ok(id_q)
            ELSE Err(InvalidInput(MsgNoIdInUrl \o input))
       ELSE IF \A i \in 1..Len(input) :
                   is_alphanumeric(input[i]) \/ input[i] = "-" \/ input[i] = "_"
       THEN Ok(input)
       ELSE Err(InvalidInput(MsgInvalidId \o input))

----------------------------------------------------------------------------
\* drive.rs: truncate_content.  A text is a sequence of runs: n characters c,
\* each w bytes long in UTF-8.

MAX_CONTENT_BYTES == 102400

MarkerBytes == 39

\* "\n\n[... content truncated at 100 KB ...]"
Marker == <<[c |-> "[marker]", w |-> 1, n |-> MarkerBytes]>>

RECURSIVE text_len(_)
text_len(text) ==
    IF text = <<>> THEN 0 ELSE Head(text).w * Head(text).n + text_len(Tail(text))

RECURSIVE is_char_boundary(_, _)
is_char_boundary(text, index) ==
    IF index = 0 THEN TRUE
    ELSE IF text = <<>> THEN FALSE
    ELSE LET run == Head(text)
             bytes == run.w * run.n
         IN IF index <= bytes
            THEN index % run.w = 0
            ELSE is_char_boundary(Tail(text), index - bytes)

\* while end > 0 && !text.is_char_boundary(end) { end -= 1 }
RECURSIVE boundary_at_or_before(_, _)
boundary_at_or_before(text, end) ==
    IF end > 0 /\ ~is_char_boundary(text, end)
    THEN boundary_at_or_before(text, end - 1)
    ELSE end

\* text[..end] for a character boundary end.
RECURSIVE byte_prefix(_, _)
byte_prefix(text, end) ==
    IF end = 0 \/ text = <<>> THEN <<>>
    ELSE LET run == Head(text)
             bytes == run.w * run.n
         IN IF end >= bytes
            THEN <<run>> \o byte_prefix(Tail(text), end - bytes)
            ELSE <<[c |-> run.c, w |-> run.w, n |-> end \div run.w]>>

\* Variant: a text of exactly the limit is truncated too.
truncate_content_strict(text) ==
    IF text_len(text) < MAX_CONTENT_BYTES
    THEN <<text, FALSE>>
    ELSE LET end == boundary_at_or_before(text, MAX_CONTENT_BYTES)
         IN <<byte_prefix(text, end) \o Marker, TRUE>>

truncate_content(text) ==
    IF text_len(text) <= MAX_CONTENT_BYTES
    THEN <<text, FALSE>>
    ELSE LET end == boundary_at_or_before(text, MAX_CONTENT_BYTES)
         IN <<byte_prefix(text, end) \o Marker, TRUE>>

----------------------------------------------------------------------------
\* DriveClient::export_file and download_file.  r is what the remote call
\* and the reading of its body produce: the call failing, the body failing,
\* or bytes that are valid UTF-8 or not.

MsgExportFailed == <<"export failed for ">>

MsgExportBody == <<"failed to read export body: ">>

MsgExportUtf8 == <<"export produced invalid UTF-8: ">>

MsgDownloadFailed == <<"download failed for ">>

MsgDownloadBody == <<"failed to read download body: ">>

MsgDownloadUtf8 == <<"file is not valid UTF-8: ">>

export_file(file_id, mime_type, r) ==
    CASE r.kind = "call_err" ->
            Err(DriveApi(MsgExportFailed \o file_id \o MsgSep \o r.msg))
      [] r.kind = "body_err" -> Err(DriveApi(MsgExportBody \o r.msg))
      [] r.kind = "bytes" /\ ~r.utf8 -> Err(DriveApi(MsgExportUtf8 \o <<"invalid utf-8">>))
      [] OTHER -> Ok(r.text)

\* Variant: a download that fails or is not UTF-8 yields an empty text.
download_file_lossy(file_id, r) ==
    IF r.kind = "bytes" /\ r.utf8 THEN Ok(r.text) ELSE Ok(<<>>)

download_file(file_id, r) ==
    CASE r.kind = "call_err" ->
            Err(DriveApi(MsgDownloadFailed \o file_id \o MsgSep \o r.msg))
      [] r.kind = "body_err" -> Err(DriveApi(MsgDownloadBody \o r.msg))
      [] r.kind = "bytes" /\ ~r.utf8 -> Err(DriveApi(MsgDownloadUtf8 \o <<"invalid utf-8">>))
      [] OTHER -> Ok(r.text)

----------------------------------------------------------------------------
\* DriveClient::read_material.  A MIME type "top/sub" is the pair <<top, sub>>.

MimeDocument == <<"application", "vnd.google-apps.document">>

MimeSpreadsheet == <<"application", "vnd.google-apps.spreadsheet">>

MimePresentation == <<"application", "vnd.google-apps.presentation">>

MimeTextPlain == <<"text", "plain">>

MimeTextCsv == <<"text", "csv">>

MimeUnknown == <<"unknown">>

DirectTypes ==
    {<<"application", "json">>, <<"application", "xml">>,
     <<"application", "javascript">>, <<"application", "x-yaml">>,
     <<"application", "csv">>}

\* Variant: a presentation is exported like a spreadsheet.
StrategySlidesAsCsv(mime_type) ==
    CASE mime_type = MimeDocument -> [how |-> "export", target |-> Some(MimeTextPlain)]
      [] mime_type = MimeSpreadsheet -> [how |-> "export", target |-> Some(MimeTextCsv)]
      [] mime_type = MimePresentation -> [how |-> "export", target |-> Some(MimeTextCsv)]
      [] (Len(mime_type) = 2 /\ mime_type[1] = "text") \/ mime_type \in DirectTypes ->
            [how |-> "download", target |-> None]
      [] OTHER -> [how |-> "none", target |-> None]

\* The match on mime_type: which call fetches the content, and the export target.
Strategy(mime_type) ==
    CASE mime_type = MimeDocument -> [how |-> "export", target |-> Some(MimeTextPlain)]
      [] mime_type = MimeSpreadsheet -> [how |-> "export", target |-> Some(MimeTextCsv)]
      [] mime_type = MimePresentation -> [how |-> "export", target |-> Some(MimeTextPlain)]
      [] (Len(mime_type) = 2 /\ mime_type[1] = "text") \/ mime_type \in DirectTypes ->
            [how |-> "download", target |-> None]
      [] OTHER -> [how |-> "none", target |-> None]

MsgAccessDenied == <<"Access denied for file ">>

MsgReauth == <<". You may need to re-authenticate. Original error: ">>

\* Variant: the upstream message is left out of the error.
MetadataErrorWithoutCause(file_id, msg) ==
    DriveApi(MsgAccessDenied \o file_id)

\* The map_err on the metadata call.
MetadataError(file_id, msg) ==
    IF "403" \in Range(msg) \/ "insufficient" \in Range(msg)
    THEN DriveApi(MsgAccessDenied \o file_id \o MsgReauth \o msg)
    ELSE DriveApi(msg)

NoteBinary(mime_type, file_name) == <<"binary", mime_type, file_name>>

\* Variant: a truncated content carries no note.
NoteLeftOut == <<>>

NoteTruncated == <<"truncated", MAX_CONTENT_BYTES>>

NoteEmpty == <<>>

JsonNull == [null |-> TRUE]

JsonString(s) == [string |-> s]

\* What read_material leaves: the drive memory tier, its events, its result.
DriveOut(cache, events, result) ==
    [drv |-> cache, events |-> events \o <<EvReturn(result.ok)>>, result |-> result]

\* The content call seen as a response: it failed, or returned a body.
ContentCall(r) ==
    CASE r.kind = "call_err" -> Err(r.msg)
      [] r.kind = "bytes" -> Ok([kind |-> "bytes", utf8 |-> r.utf8])
      [] OTHER -> Ok([kind |-> r.kind, utf8 |-> FALSE])

read_material_miss(file_id, rm, r) ==
    LET file == rm.val
        mime_type == IF file.mime_type = None THEN MimeUnknown ELSE file.mime_type[1]
        file_name == IF file.name = None THEN <<"unknown">> ELSE file.name[1]
        metadata == [id |-> file.id, name |-> file.name, mimeType |-> file.mime_type,
                     size |-> file.size]
        strategy == Strategy(mime_type)
        fetched == CASE strategy.how = "export" ->
                           export_file(file_id, strategy.target[1], r)
                     [] strategy.how = "download" -> download_file(file_id, r)
                     [] OTHER -> Ok(None)
        fetch_events ==
            CASE strategy.how = "export" ->
                     <<EvCall("files.export", <<file_id, strategy.target[1]>>,
                              ContentCall(r))>>
              [] strategy.how = "download" ->
                     <<EvCall("files.get.media", file_id, ContentCall(r))>>
              [] OTHER -> <<>>
        cut == truncate_content(fetched.val)
        content_value == IF strategy.how = "none" THEN JsonNull ELSE JsonString(cut[1])
        truncated == IF strategy.how = "none" THEN FALSE ELSE cut[2]
        result == [metadata |-> metadata,
                   content |-> content_value,
                   exportedAs |-> strategy.target,
                   truncated |-> truncated,
                   note |-> IF content_value = JsonNull
                            THEN NoteBinary(mime_type, file_name)
                            ELSE IF truncated THEN NoteTruncated ELSE NoteEmpty]
    IN IF ~rm.ok
       THEN DriveOut(drive_cache,
                     <<EvMiss(drive_cache, file_id), EvCall("files.get", file_id, rm)>>,
                     Err(MetadataError(file_id, rm.err)))
       ELSE IF ~fetched.ok
       THEN DriveOut(drive_cache,
                     <<EvMiss(drive_cache, file_id), EvCall("files.get", file_id, rm)>>
                         \o fetch_events,
                     Err(fetched.err))
       ELSE DriveOut(MemInsert(drive_cache, file_id, result, now),
                     <<EvMiss(drive_cache, file_id), EvCall("files.get", file_id, rm)>>
                         \o fetch_events \o <<EvInsert(file_id)>>,
                     Ok(result))

\* Variant: the metadata is requested for the raw parameter before the
\* parameter is parsed.
read_material_fetch_first(file_id_or_url, rm, r) ==
    LET parsed == parse_file_id(file_id_or_url)
    IN IF ~parsed.ok
       THEN DriveOut(drive_cache, <<EvCall("files.get", file_id_or_url, rm)>>,
                     Err(parsed.err))
       ELSE IF MemGet(drive_cache, parsed.val, DriveTTL, now) # None
       THEN DriveOut(drive_cache, <<EvHit(parsed.val)>>,
                     Ok(MemGet(drive_cache, parsed.val, DriveTTL, now)[1]))
       ELSE read_material_miss(parsed.val, rm, r)

read_material(file_id_or_url, rm, r) ==
    LET parsed == parse_file_id(file_id_or_url)
        file_id == parsed.val
        cached == MemGet(drive_cache, file_id, DriveTTL, now)
    IN IF ~parsed.ok
       THEN DriveOut(drive_cache, <<>>, Err(parsed.err))
       ELSE IF cached # None
       THEN DriveOut(drive_cache, <<EvHit(file_id)>>, Ok(cached[1]))
       ELSE read_material_miss(file_id, rm, r)

----------------------------------------------------------------------------
\* The requests and the environment.

Courses == {<<"a">>}

\* Coursework items as the remote service lists them; the API type leaves
\* every field optional, id included.
CourseWork(i, has_id) == [id |-> IF has_id THEN Some(i) ELSE None, title |-> i]

\* The coursework lists of length n whose items without an id are those in D.
CourseWorkList(n, D) == [i \in 1..n |-> CourseWork(i, i \notin D)]

\* What the submissions calls of one request return, by position in the list.
SubmissionOutcomes(n) ==
    [1..Min(n, TakeCount) -> DependentResponses("submission")]

\* The requests the server handles at once, each a task of the runtime.
Tasks == {1, 2}

\* A task that handles no request; got is what read_disk_cache returned to
\* the request it handled last, returned the document that request returned.
Idle == [pc |-> "idle", course_id |-> <<>>, req |-> 0, value |-> <<>>,
         offset |-> 0, got |-> None, returned |-> None]

NoPrior == [op |-> "none", arg |-> <<>>, degraded |-> FALSE]

NoRequest ==
    [op |-> "none", arg |-> <<>>, events |-> <<>>, result |-> Ok(<<>>),
     prior |-> NoPrior]

\* The request succeeded although one of its calls had failed.
Degraded(request) ==
    /\ request.result.ok
    /\ \E i \in 1..Len(request.events) :
          request.events[i].ev = "call" /\ ~request.events[i].ok

\* What is kept of a request once the next one has been served: what was
\* asked, if it was answered with a degraded document.
Earlier(request) ==
    IF Degraded(request)
    THEN [op |-> request.op, arg |-> request.arg, degraded |-> TRUE]
    ELSE NoPrior

Init ==
    /\ memory_cache = EmptyCache
    /\ drive_cache = EmptyCache
    /\ disk = EmptyCache
    /\ now = 0
    /\ ticks = 0
    /\ nops = 0
    /\ last = NoRequest
    /\ inflight = [t \in Tasks |-> Idle]
    /\ handed = {}

\* One tool request served by the ClassroomClient.
Serve(op, arg, out) ==
    /\ nops < MaxOps
    /\ nops' = nops + 1
    /\ memory_cache' = out.mem
    /\ disk' = out.disk
    /\ last' = [op |-> op, arg |-> arg, events |-> out.events, result |-> out.result,
                prior |-> Earlier(last)]
    /\ UNCHANGED <<drive_cache, now, ticks, inflight, handed>>

\* One tool request served by the DriveClient.
ServeDrive(op, arg, out) ==
    /\ nops < MaxOps
    /\ nops' = nops + 1
    /\ drive_cache' = out.drv
    /\ last' = [op |-> op, arg |-> arg, events |-> out.events, result |-> out.result,
                prior |-> Earlier(last)]
    /\ UNCHANGED <<memory_cache, disk, now, ticks, inflight, handed>>

ListCourses ==
    \E r \in ListResponses("course") :
        Serve("list_courses", <<>>, list_courses(r))

GetCourseDetails ==
    \E course_id \in Courses :
        \E rc \in CourseResponses(course_id), ra \in DependentResponses("announcement") :
            Serve("get_course_details", course_id,
                  get_course_details(course_id, rc, ra))

GetAssignments ==
    \E course_id \in Courses :
        \E rc \in CourseResponses(course_id),
           rcw \in Failures \cup {Ok(None), Ok(Some(CourseWorkList(1, {})))},
           rs \in SubmissionOutcomes(1) :
            Serve("get_assignments", course_id,
                  get_assignments(course_id, rc, rcw, rs))

GetCourseMaterials ==
    \E course_id \in Courses :
        \E r \in ListResponses("material"), w \in WriteOutcomes :
            Serve("get_course_materials", course_id,
                  get_course_materials(course_id, r, w))

GetCourseTopics ==
    \E course_id \in Courses :
        \E r \in ListResponses("topic"), w \in WriteOutcomes :
            Serve("get_course_topics", course_id,
                  get_course_topics(course_id, r, w))

FileInputs ==
    {<<"f">>,
     <<"h", "t", "t", "p", "s", ":", "/", "/", "x", "/", "d", "/", "f", "/", "e">>,
     <<"f", "?">>}

ShortText == <<[c |-> "a", w |-> 1, n |-> 5]>>

LongText == <<[c |-> "a", w |-> 1, n |-> MAX_CONTENT_BYTES + 1]>>

FileMetadata(id, mime) ==
    [id |-> Some(id), name |-> Some(<<"n">>), mime_type |-> mime, size |-> Revision]

MetadataResponses(id) ==
    Failures \cup
    {Ok(FileMetadata(id, mime)) :
        mime \in {Some(MimeDocument), Some(MimeTextPlain), Some(<<"image", "png">>)}}

ContentResponses ==
    {[kind |-> "call_err", msg |-> <<"timeout">>],
     [kind |-> "bytes", utf8 |-> TRUE, text |-> ShortText]}

ReadMaterial ==
    \E input \in FileInputs :
        \E rm \in MetadataResponses(<<"f">>), r \in ContentResponses :
            ServeDrive("read_material", input, read_material(input, rm, r))

\* The clock is read just before and exactly at every multiple of the time
\* to live: it advances by TTL - 1 and by 1 in turn.
TickStep == IF ticks % 2 = 0 THEN TTL - 1 ELSE 1

Tick ==
    /\ ticks < MaxTicks
    /\ now' = now + TickStep
    /\ ticks' = ticks + 1
    /\ UNCHANGED <<memory_cache, drive_cache, disk, nops, last, inflight, handed>>

\* The server process is started again (main.rs builds new clients): both
\* memory tiers start empty, the cache directory is as it was left.
Restart ==
    /\ memory_cache' = EmptyCache
    /\ drive_cache' = EmptyCache
    /\ UNCHANGED <<disk, now, ticks, nops, last, inflight, handed>>

\* Someone else damages or removes a cache file.
CorruptFile ==
    \E path \in DOMAIN disk :
        /\ disk' = [disk EXCEPT ![path] = Garbage]
        /\ UNCHANGED <<memory_cache, drive_cache, now, ticks, nops, last, inflight, handed>>

RemoveFile ==
    \E path \in DOMAIN disk :
        /\ disk' = [p \in (DOMAIN disk) \ {path} |-> disk[p]]
        /\ UNCHANGED <<memory_cache, drive_cache, now, ticks, nops, last, inflight, handed>>

Next ==
    \/ ListCourses
    \/ GetCourseDetails
    \/ GetAssignments
    \/ GetCourseMaterials
    \/ GetCourseTopics
    \/ ReadMaterial
    \/ Tick
    \/ Restart
    \/ CorruptFile
    \/ RemoveFile

Spec == Init /\ [][Next]_vars

----------------------------------------------------------------------------
\* get_assignments on its own, over every coursework list of up to
\* MaxCourseWork items, any of them without an id, and every outcome of the
\* submissions calls.

CourseWorkLists ==
    UNION {{CourseWorkList(n, D) : D \in SUBSET (1..n)} : n \in 0..MaxCourseWork}

NoResponse == Err(<<>>)

GetAssignmentsBatch ==
    \E course_id \in Courses :
        IF MemGet(memory_cache, key_assignments(course_id), TTL, now) # None
        THEN Serve("get_assignments", course_id,
                   get_assignments(course_id, NoResponse, NoResponse, <<>>))
        ELSE \E rc \in CourseResponses(course_id) :
                IF ~rc.ok
                THEN Serve("get_assignments", course_id,
                           get_assignments(course_id, rc, NoResponse, <<>>))
                ELSE \E rcw \in Failures \cup {Ok(None)}
                                     \cup {Ok(Some(l)) : l \in CourseWorkLists} :
                        \E rs \in SubmissionOutcomes(
                                    IF rcw.ok THEN Len(unwrap_or_default(rcw.val))
                                    ELSE 0) :
                            Serve("get_assignments", course_id,
                                  get_assignments(course_id, rc, rcw, rs))

NextAssign == GetAssignmentsBatch

SpecAssign == Init /\ [][NextAssign]_vars

\* get_course_materials with several requests in flight.  A request runs
\* from one await or system call to the next in one step: the memory get,
\* the disk read, the remote call, the memory insert, and std::fs::write,
\* which is File::create (the file is truncated) followed by write_all (a
\* loop of write calls, each storing one or more of the blocks left, at the
\* position this writer has reached).

\* What the service lists for request number req: two materials.
MaterialsOf(req) ==
    <<[item |-> "material", rev |-> req, n |-> 1],
      [item |-> "material", rev |-> req, n |-> 2]>>

\* pwrite of blocks at position offset of a file text; a gap is zero bytes.
WriteAt(data, offset, blocks) ==
    LET padded == IF Len(data) < offset
                  THEN data \o [i \in 1..(offset - Len(data)) |-> Nul]
                  ELSE data
    IN SubSeq(padded, 1, offset) \o blocks
           \o SubSeq(padded, offset + Len(blocks) + 1, Len(padded))

\* Step 1: the memory tier; a hit is returned.
MaterialsStart(t) ==
    \E course_id \in Courses :
        LET key == key_materials(course_id)
            cached == MemGet(memory_cache, key, TTL, now)
        IN /\ inflight[t].pc = "idle"
           /\ nops < MaxRequests
           /\ nops' = nops + 1
           /\ inflight' = [inflight EXCEPT ![t] =
                  IF cached # None THEN [Idle EXCEPT !.returned = cached]
                  ELSE [Idle EXCEPT !.pc = "disk", !.course_id = course_id,
                                    !.req = nops + 1]]
           /\ UNCHANGED <<memory_cache, drive_cache, disk, now, ticks, last, handed>>

\* Step 2: the disk tier; a hit is backfilled into memory and returned.
MaterialsDiskRead(t) ==
    LET key == key_materials(inflight[t].course_id)
        on_disk == read_disk_cache(disk, key)
    IN /\ inflight[t].pc = "disk"
       /\ IF on_disk # None
          THEN /\ memory_cache' = MemInsert(memory_cache, key, on_disk[1], now)
               /\ inflight' = [inflight EXCEPT ![t] =
                      [Idle EXCEPT !.got = on_disk, !.returned = on_disk]]
          ELSE /\ inflight' = [inflight EXCEPT ![t].pc = "fetch"]
               /\ UNCHANGED memory_cache
       /\ UNCHANGED <<drive_cache, disk, now, ticks, nops, last, handed>>

\* Step 3: the remote call; its failure is returned.
MaterialsFetch(t) ==
    \E r \in {Err(<<"timeout">>), Ok(Some(MaterialsOf(inflight[t].req)))} :
        /\ inflight[t].pc = "fetch"
        /\ inflight' = [inflight EXCEPT ![t] =
               IF r.ok THEN [@ EXCEPT !.pc = "insert", !.value = unwrap_or_default(r.val)]
               ELSE Idle]
        /\ UNCHANGED <<memory_cache, drive_cache, disk, now, ticks, nops, last, handed>>

\* Variant: the value is inserted only if the key has no entry yet, so the
\* request that inserts first wins.
MaterialsInsertIfAbsent(t) ==
    LET key == key_materials(inflight[t].course_id)
    IN /\ inflight[t].pc = "insert"
       /\ memory_cache' =
              IF key \in DOMAIN memory_cache THEN memory_cache
              ELSE MemInsert(memory_cache, key, inflight[t].value, now)
       /\ handed' = handed \cup {<<key, inflight[t].value>>}
       /\ inflight' = [inflight EXCEPT ![t].pc = "create"]
       /\ UNCHANGED <<drive_cache, disk, now, ticks, nops, last>>

\* memory_cache.insert(key, value).await; write_disk_cache is called next.
MaterialsInsert(t) ==
    LET key == key_materials(inflight[t].course_id)
    IN /\ inflight[t].pc = "insert"
       /\ memory_cache' = MemInsert(memory_cache, key, inflight[t].value, now)
       /\ handed' = handed \cup {<<key, inflight[t].value>>}
       /\ inflight' = [inflight EXCEPT ![t].pc = "create"]
       /\ UNCHANGED <<drive_cache, disk, now, ticks, nops, last>>

\* std::fs::write, first half: File::create truncates the file.
MaterialsCreateFile(t) ==
    LET path == disk_path(key_materials(inflight[t].course_id))
    IN /\ inflight[t].pc = "create"
       /\ disk' = FileWrite(disk, path, <<>>)
       /\ inflight' = [inflight EXCEPT ![t].pc = "write", ![t].offset = 0]
       /\ UNCHANGED <<memory_cache, drive_cache, now, ticks, nops, last, handed>>

\* std::fs::write, second half: one write call of write_all; after the
\* last one the request returns Ok(value).
MaterialsWriteFile(t) ==
    LET path == disk_path(key_materials(inflight[t].course_id))
        text == to_string_pretty(inflight[t].value)
        offset == inflight[t].offset
    IN /\ inflight[t].pc = "write"
       /\ \E n \in 1..(Len(text) - offset) :
             /\ disk' = FileWrite(disk, path,
                                  WriteAt(disk[path], offset,
                                          SubSeq(text, offset + 1, offset + n)))
             /\ inflight' = [inflight EXCEPT ![t] =
                    IF offset + n = Len(text)
                    THEN [Idle EXCEPT !.returned = Some(inflight[t].value)]
                    ELSE [@ EXCEPT !.offset = offset + n]]
       /\ UNCHANGED <<memory_cache, drive_cache, now, ticks, nops, last, handed>>

\* The process is stopped and started again: the requests in flight are
\* gone, the memory tier is empty, the files are as they were left.
StopAndRestart ==
    /\ memory_cache' = EmptyCache
    /\ inflight' = [t \in Tasks |-> Idle]
    /\ UNCHANGED <<drive_cache, disk, now, ticks, nops, last, handed>>

NextConcurrent ==
    \/ \E t \in Tasks : MaterialsStart(t)
    \/ \E t \in Tasks : MaterialsDiskRead(t)
    \/ \E t \in Tasks : MaterialsFetch(t)
    \/ \E t \in Tasks : MaterialsInsert(t)
    \/ \E t \in Tasks : MaterialsCreateFile(t)
    \/ \E t \in Tasks : MaterialsWriteFile(t)
    \/ StopAndRestart

SpecConcurrent == Init /\ [][NextConcurrent]_vars

----------------------------------------------------------------------------
ClassroomOps ==
    {"list_courses", "get_course_details", "get_assignments",
     "get_course_materials", "get_course_topics"}

TwoTierOps == {"get_course_materials", "get_course_topics"}

\* The cache key of a request.
KeyOf(op, arg) ==
    CASE op = "list_courses" -> key_courses
      [] op = "get_course_details" -> key_course_details(arg)
      [] op = "get_assignments" -> key_assignments(arg)
      [] op = "get_course_materials" -> key_materials(arg)
      [] op = "get_course_topics" -> key_topics(arg)

\* The primary remote call of an operation.
PrimaryApi(op) ==
    CASE op = "list_courses" -> "courses.list"
      [] op = "get_course_details" -> "courses.get"
      [] op = "get_assignments" -> "courses.get"
      [] op = "get_course_materials" -> "courseWorkMaterials.list"
      [] op = "get_course_topics" -> "topics.list"
      [] op = "read_material" -> "files.get"

\* What the memory tier's get returns for a request, in the state the
\* request is served from.
MemoryGetFor(op, arg) ==
    IF op = "read_material"
    THEN IF parse_file_id(arg).ok
         THEN MemGet(drive_cache, parse_file_id(arg).val, DriveTTL, now)
         ELSE None
    ELSE MemGet(memory_cache, KeyOf(op, arg), TTL, now)

\* This step serves a request.
Served == nops' = nops + 1

\* The cache and the key a request is looked up under, if it gets that far:
\* the ClassroomClient's cache under the operation's key, or the
\* DriveClient's cache under the parsed file id.
CacheKey(op, arg) ==
    IF op = "read_material"
    THEN IF parse_file_id(arg).ok
         THEN Some(<<"DriveClient", parse_file_id(arg).val>>)
         ELSE None
    ELSE Some(<<"ClassroomClient", KeyOf(op, arg)>>)

----------------------------------------------------------------------------
\* read_material on its own, over every kind of parameter, every MIME type
\* of the match and every outcome of the content call.

DriveInputs ==
    {<<"f">>, <<" ", "f", " ">>,
     SchemeHttps \o <<"x">> \o PatD \o <<"f", "/", "e">>,
     <<>>, <<" ">>, <<"f", "?">>, SchemeHttps \o <<"x">>}

MimeTypes ==
    {None, Some(MimeDocument), Some(MimeSpreadsheet), Some(MimePresentation),
     Some(MimeTextPlain), Some(<<"text", "html">>),
     Some(<<"image", "png">>), Some(<<"application", "pdf">>),
     Some(<<"application", "vnd.google-apps.form">>)}
        \cup {Some(m) : m \in DirectTypes}

\* One one-byte character, then two-byte characters: the limit falls inside
\* a character.
LongWideText ==
    <<[c |-> "a", w |-> 1, n |-> 1], [c |-> "é", w |-> 2, n |-> MAX_CONTENT_BYTES \div 2]>>

ContentOutcomes ==
    {[kind |-> "call_err", msg |-> <<"timeout">>],
     [kind |-> "body_err", msg |-> <<"reset">>],
     [kind |-> "bytes", utf8 |-> FALSE, text |-> <<>>]}
        \cup {[kind |-> "bytes", utf8 |-> TRUE, text |-> t] :
                 t \in {<<>>, ShortText, LongText, LongWideText}}

ReadAnyMaterial ==
    \E input \in DriveInputs :
        \E rm \in Failures \cup {Ok(FileMetadata(<<"f">>, mime)) : mime \in MimeTypes},
           r \in ContentOutcomes :
            ServeDrive("read_material", input, read_material(input, rm, r))

NextDrive == ReadAnyMaterial

SpecDrive == Init /\ [][NextDrive]_vars

----------------------------------------------------------------------------
\* The pure functions of the pipeline, applied to inputs drawn from bounded
\* sets; last records the application.

CourseIds == {<<>>, <<"a">>, <<"b">>, <<"s">>, <<"_", "a">>, <<":", "a">>}

KeyFileInputs ==
    {<<"f">>, <<" ", "f">>, <<"g">>, <<"f", "?">>, <<>>,
     SchemeHttps \o <<"x">> \o PatD \o <<"f", "/", "e">>,
     SchemeHttps \o <<"x", "?">> \o PatId \o <<"f">>,
     SchemeHttps \o <<"x", "?">> \o PatId \o <<"g", "&", "y">>}

KeyRequests ==
    {[op |-> "list_courses", arg |-> <<>>]}
        \cup {[op |-> op, arg |-> course_id] :
                 op \in ClassroomOps \ {"list_courses"}, course_id \in CourseIds}
        \cup {[op |-> "read_material", arg |-> input] : input \in KeyFileInputs}

Applied(function, input, output) ==
    /\ nops = 0
    /\ nops' = 1
    /\ last' = [op |-> function, arg |-> input, events |-> <<>>, result |-> output,
                prior |-> Earlier(last)]
    /\ UNCHANGED <<memory_cache, drive_cache, disk, now, ticks, inflight, handed>>

ApplyCacheKey ==
    \E p \in KeyRequests, q \in KeyRequests :
        Applied("cache_key", <<p, q>>, <<CacheKey(p.op, p.arg), CacheKey(q.op, q.arg)>>)

\* Inputs of parse_file_id: a prefix followed by up to MaxPieces pieces.
Prefixes ==
    {<<>>, <<" ">>, SchemeHttp, SchemeHttps, <<" ">> \o SchemeHttps,
     <<"f", "t", "p", ":", "/", "/">>}

Pieces ==
    {PatD, PatId, PatId \o <<"g">>, <<"/">>, <<"&">>, <<"f">>, <<"g", "-", "_">>,
     <<"é">>, <<"?">>, <<" ">>}

RECURSIVE Bodies(_)
Bodies(n) ==
    IF n = 0 THEN {<<>>}
    ELSE Bodies(n - 1) \cup {b \o p : b \in Bodies(n - 1), p \in Pieces}

ParseInputs == {p \o b : p \in Prefixes, b \in Bodies(MaxPieces)}

ApplyParseFileId ==
    \E input \in ParseInputs :
        Applied("parse_file_id", input, parse_file_id(input))

\* Inputs of truncate_content: texts whose length is within a few bytes of
\* the limit, ending in characters of one to four bytes.
Heads ==
    {[c |-> "a", w |-> 1, n |-> k] :
        k \in (MAX_CONTENT_BYTES - MaxSlack)..(MAX_CONTENT_BYTES + 1)}

Wides == {[c |-> "w", w |-> w, n |-> n] : w \in 2..4, n \in 1..2}

Tails == {[c |-> "z", w |-> 1, n |-> n] : n \in 1..2}

TruncateInputs ==
    {<<>>, ShortText, LongText, LongWideText}
        \cup {<<h>> : h \in Heads}
        \cup {<<h, x>> : h \in Heads, x \in Wides}
        \cup {<<h, x, t>> : h \in Heads, x \in Wides, t \in Tails}

ApplyTruncateContent ==
    \E text \in TruncateInputs :
        Applied("truncate_content", text, truncate_content(text))

NextFunctions ==
    \/ ApplyCacheKey
    \/ ApplyParseFileId
    \/ ApplyTruncateContent

SpecFunctions == Init /\ [][NextFunctions]_vars

----------------------------------------------------------------------------

\* C1: in each of the six operations, when the memory tier's get for the
\* request's key returns an entry, the request returns exactly that document
\* and issues no remote call.
C1_HitReturnsCachedWithoutCalls ==
    [][Served =>
          LET cached == MemoryGetFor(last'.op, last'.arg)
          IN cached # None =>
                /\ last'.result = Ok(cached[1])
                /\ Calls(last'.events) = <<>>]_vars

\* A request by URL was answered from the drive memory tier.
C1_Witness ==
    /\ last.op = "read_material"
    /\ Len(last.arg) > 1
    /\ last.events[1] = EvHit(<<"f">>)
    /\ last.result.ok

\* C2: when the primary remote call of an operation fails, the request
\* fails with the remote-API error of its client, the error's message
\* carries the upstream message, and no other remote call is issued.
C2_PrimaryFailureIsFatal ==
    LET calls == Calls(last.events)
    IN (calls # <<>> /\ ~calls[1].ok) =>
          /\ calls[1].what[1] = PrimaryApi(last.op)
          /\ ~last.result.ok
          /\ last.result.err.variant =
                 (IF last.op = "read_material" THEN "DriveApi" ELSE "GoogleApi")
          /\ Carries(last.result.err.msg, calls[1].resp.err)
          /\ Len(calls) = 1

\* The metadata call of read_material failed with the 403 message.
C2_Witness ==
    /\ last.op = "read_material"
    /\ Calls(last.events) # <<>>
    /\ Calls(last.events)[1].resp = Err(<<"HTTP", "403">>)
    /\ ~last.result.ok

\* The submissions calls of the request served last, in the order issued.
IsSubmissionsCall(e) == e.ev = "call" /\ e.what[1] = "submissions.list"

SubmissionsCalls == SelectSeq(last.events, IsSubmissionsCall)

\* The request served last fetched the course of get_assignments.
FetchedAssignments ==
    /\ last.op = "get_assignments"
    /\ Len(Calls(last.events)) >= 2

\* C3: in get_assignments, whichever submissions calls fail, the request
\* succeeds; the j-th call issued accounts for the j-th entry of the
\* composite, which holds the coursework the call was for and either the
\* submissions that call returned or, if it failed, an empty list.
C3_SubmissionFailuresAreContained ==
    FetchedAssignments =>
        /\ last.result.ok
        /\ Len(last.result.val.assignments) >= Len(SubmissionsCalls)
        /\ \A j \in 1..Len(SubmissionsCalls) :
              LET call == SubmissionsCalls[j]
                  entry == last.result.val.assignments[j]
              IN /\ entry.courseWork.id = Some(call.what[2][2])
                 /\ entry.submissions =
                        (IF call.ok THEN unwrap_or_default(call.resp.val) ELSE <<>>)

\* One submissions call failed, a later one returned submissions.
C3_Witness ==
    /\ FetchedAssignments
    /\ Len(SubmissionsCalls) >= 3
    /\ ~SubmissionsCalls[2].ok
    /\ SubmissionsCalls[3].ok
    /\ SubmissionsCalls[3].resp.val # None
    /\ last.result.val.assignments[3].submissions # <<>>

\* The coursework list the request served last received.
CourseWorkReceived == Calls(last.events)[2].resp

\* C4: for a coursework list of n items the composite has n entries in list
\* order, entry i holding item i; the entries after the 5th have empty
\* submissions.
C4_NoCourseWorkDropped ==
    (FetchedAssignments /\ CourseWorkReceived.ok) =>
        LET list == unwrap_or_default(CourseWorkReceived.val)
            assignments == last.result.val.assignments
        IN /\ Len(assignments) = Len(list)
           /\ \A i \in 1..Len(list) :
                 /\ assignments[i].courseWork = list[i]
                 /\ i > TakeCount => assignments[i].submissions = <<>>

\* The memory tier and the time to live a request is served from.
CacheFor(op) == IF op = "read_material" THEN drive_cache ELSE memory_cache

TtlFor(op) == IF op = "read_material" THEN DriveTTL ELSE TTL

\* The key a request looks up, if it gets as far as the memory tier.
LookupKey(op, arg) ==
    IF op = "read_material"
    THEN IF parse_file_id(arg).ok THEN Some(parse_file_id(arg).val) ELSE None
    ELSE Some(KeyOf(op, arg))

\* The request served by this step issues remote calls, the primary first.
Refetches ==
    /\ Calls(last'.events) # <<>>
    /\ Calls(last'.events)[1].what[1] = PrimaryApi(last'.op)

\* C5 as stated: an entry inserted at T is returned by requests before
\* T + TTL; from T + TTL on the request refetches remotely, in every
\* operation, get_course_materials and get_course_topics included.
C5_ExpiredEntryForcesRefetch ==
    [][(Served /\ LookupKey(last'.op, last'.arg) # None) =>
          LET cache == CacheFor(last'.op)
              key == LookupKey(last'.op, last'.arg)[1]
          IN key \in DOMAIN cache =>
                IF now < cache[key].insertedAt + TtlFor(last'.op)
                THEN /\ last'.result = Ok(cache[key].value)
                     /\ Calls(last'.events) = <<>>
                ELSE Refetches]_vars

\* C5, amended: an entry inserted at T is returned by requests before
\* T + TTL; from T + TTL on it is absent: the memory-only operations then
\* refetch remotely, and get_course_materials and get_course_topics return
\* the document of a parsable disk file without a remote call and refetch
\* only when there is none.
C5_ExpiredEntryFallsThrough ==
    [][(Served /\ LookupKey(last'.op, last'.arg) # None) =>
          LET cache == CacheFor(last'.op)
              key == LookupKey(last'.op, last'.arg)[1]
              on_disk == read_disk_cache(disk, key)
          IN key \in DOMAIN cache =>
                IF now < cache[key].insertedAt + TtlFor(last'.op)
                THEN /\ last'.result = Ok(cache[key].value)
                     /\ Calls(last'.events) = <<>>
                ELSE IF last'.op \in TwoTierOps /\ on_disk # None
                     THEN /\ last'.result = Ok(on_disk[1])
                          /\ Calls(last'.events) = <<>>
                     ELSE Refetches]_vars

\* A memory-only operation found its entry expired at the instant its age
\* reached the time to live, and fetched again.
C5_Witness ==
    /\ last.op = "list_courses"
    /\ last.events[1].expired
    /\ now = TTL
    /\ Calls(last.events) # <<>>
    /\ last.result.ok
    /\ memory_cache[key_courses].insertedAt = TTL

\* C6: a request of a two-tier operation made while the disk file of its
\* key parses returns the stored document, without a remote call, whatever
\* the memory tier holds and whatever the remote API would answer.
C6_IntactFileIsAlwaysServed ==
    [][(Served /\ last'.op \in TwoTierOps) =>
          LET stored == read_disk_cache(disk, KeyOf(last'.op, last'.arg))
          IN stored # None =>
                /\ last'.result = Ok(stored[1])
                /\ Calls(last'.events) = <<>>]_vars

\* After a restart emptied the memory tier, the request was served from the
\* disk file.
C6_Witness ==
    /\ last.op \in TwoTierOps
    /\ Len(last.events) >= 2
    /\ ~last.events[1].ok
    /\ ~last.events[1].expired
    /\ last.events[2].ev = "disk_read"
    /\ last.events[2].ok
    /\ last.result.ok
    /\ nops = 2

\* The disk-write event of the request served by this step succeeded.
DiskWriteOk ==
    \E i \in 1..Len(last'.events) :
        last'.events[i].ev = "disk_write" /\ last'.events[i].ok

\* C7 as stated: on a memory miss with a parsable disk file the document is
\* backfilled into memory and returned without a remote call; the remote
\* API is called only when both tiers miss; a successful result is inserted
\* into both tiers.
C7_FetchedResultInBothTiers ==
    [][(Served /\ last'.op \in TwoTierOps) =>
          LET key == KeyOf(last'.op, last'.arg)
              cached == MemGet(memory_cache, key, TTL, now)
              stored == read_disk_cache(disk, key)
              calls == Calls(last'.events)
          IN /\ (cached = None /\ stored # None) =>
                    /\ MemGet(memory_cache', key, TTL, now) = stored
                    /\ last'.result = Ok(stored[1])
                    /\ calls = <<>>
             /\ calls # <<>> => (cached = None /\ stored = None)
             /\ (calls # <<>> /\ calls[1].ok) =>
                    /\ last'.result = Ok(unwrap_or_default(calls[1].resp.val))
                    /\ MemGet(memory_cache', key, TTL, now) = Some(last'.result.val)
                    /\ read_disk_cache(disk', key) = Some(last'.result.val)]_vars

\* C7, amended: as C7, but a successful result is inserted into the memory
\* tier always and is in the disk tier when the disk write succeeded.
C7_FetchedResultInMemoryAndWrittenDisk ==
    [][(Served /\ last'.op \in TwoTierOps) =>
          LET key == KeyOf(last'.op, last'.arg)
              cached == MemGet(memory_cache, key, TTL, now)
              stored == read_disk_cache(disk, key)
              calls == Calls(last'.events)
          IN /\ (cached = None /\ stored # None) =>
                    /\ MemGet(memory_cache', key, TTL, now) = stored
                    /\ last'.result = Ok(stored[1])
                    /\ calls = <<>>
             /\ calls # <<>> => (cached = None /\ stored = None)
             /\ (calls # <<>> /\ calls[1].ok) =>
                    /\ last'.result = Ok(unwrap_or_default(calls[1].resp.val))
                    /\ MemGet(memory_cache', key, TTL, now) = Some(last'.result.val)
                    /\ DiskWriteOk =>
                          read_disk_cache(disk', key) = Some(last'.result.val)]_vars

\* A disk hit after the memory entry expired was backfilled into memory.
C7_Witness ==
    /\ last.op = "get_course_materials"
    /\ Len(last.events) = 4
    /\ last.events[1].expired
    /\ last.events[2].ev = "disk_read"
    /\ last.events[2].ok
    /\ last.events[3].ev = "mem_insert"
    /\ memory_cache[key_materials(last.arg)].insertedAt = now
    /\ now > 0

\* The request served by this step missed the memory tier and found the
\* disk file of its key unparsable.
FoundCorruptFile ==
    /\ Served
    /\ last'.op \in TwoTierOps
    /\ MemGet(memory_cache, KeyOf(last'.op, last'.arg), TTL, now) = None
    /\ disk_path(KeyOf(last'.op, last'.arg)) \in DOMAIN disk
    /\ ~from_str(disk[disk_path(KeyOf(last'.op, last'.arg))]).ok

\* C8 as stated: an unparsable disk file makes the disk read return absent,
\* the request goes on to the remote fetch; a successful fetch overwrites
\* the file with the fetched document and succeeds, a failed fetch leaves
\* the corrupt file as it was.
C8_CorruptFileIsReplacedByFetch ==
    [][FoundCorruptFile =>
          LET key == KeyOf(last'.op, last'.arg)
              path == disk_path(key)
              calls == Calls(last'.events)
          IN /\ last'.events[2] =
                    [ev |-> "disk_read", what |-> key, ok |-> FALSE, corrupted |-> TRUE]
             /\ Refetches
             /\ IF calls[1].ok
                THEN /\ last'.result = Ok(unwrap_or_default(calls[1].resp.val))
                     /\ disk' = FileWrite(disk, path, to_string_pretty(last'.result.val))
                ELSE /\ ~last'.result.ok
                     /\ last'.result.err.variant = "GoogleApi"
                     /\ disk' = disk]_vars

\* C8, amended: as C8, but the successful fetch overwrites the file only if
\* its disk write succeeds; if the write fails the request still succeeds
\* and the file of the key stays unparsable, the other files untouched.
C8_CorruptFileIsReplacedByWrittenFetch ==
    [][FoundCorruptFile =>
          LET key == KeyOf(last'.op, last'.arg)
              path == disk_path(key)
              calls == Calls(last'.events)
          IN /\ last'.events[2] =
                    [ev |-> "disk_read", what |-> key, ok |-> FALSE, corrupted |-> TRUE]
             /\ Refetches
             /\ IF calls[1].ok
                THEN /\ last'.result = Ok(unwrap_or_default(calls[1].resp.val))
                     /\ IF DiskWriteOk
                        THEN disk' = FileWrite(disk, path,
                                               to_string_pretty(last'.result.val))
                        ELSE /\ DOMAIN disk' = DOMAIN disk
                             /\ ~from_str(disk'[path]).ok
                             /\ \A p \in DOMAIN disk \ {path} : disk'[p] = disk[p]
                ELSE /\ ~last'.result.ok
                     /\ last'.result.err.variant = "GoogleApi"
                     /\ disk' = disk]_vars

\* A corrupt file was found, the fetch succeeded and the file now holds the
\* fetched document.
C8_Witness ==
    /\ last.op \in TwoTierOps
    /\ Len(last.events) >= 5
    /\ last.events[2].ev = "disk_read"
    /\ last.events[2].corrupted
    /\ last.events[3].ok
    /\ last.events[5] = EvDiskWrite(KeyOf(last.op, last.arg), TRUE)
    /\ read_disk_cache(disk, KeyOf(last.op, last.arg)) = Some(last.result.val)

\* The disk-write event of the request served by this step failed.
DiskWriteFailed ==
    \E i \in 1..Len(last'.events) :
        last'.events[i].ev = "disk_write" /\ ~last'.events[i].ok

\* C9: when the disk write of a two-tier operation fails, the request
\* returns the fetched document as a success and the memory tier holds it.
C9_DiskWriteFailureIsIgnored ==
    [][(Served /\ last'.op \in TwoTierOps /\ DiskWriteFailed) =>
          LET key == KeyOf(last'.op, last'.arg)
              calls == Calls(last'.events)
          IN /\ Len(calls) = 1
             /\ calls[1].ok
             /\ last'.result = Ok(unwrap_or_default(calls[1].resp.val))
             /\ MemGet(memory_cache', key, TTL, now) = Some(last'.result.val)]_vars

\* A request whose disk write failed returned its document, which is in
\* memory and not on disk.
C9_Witness ==
    /\ last.op = "get_course_topics"
    /\ last.result.ok
    /\ \E i \in 1..Len(last.events) :
          last.events[i] = EvDiskWrite(key_topics(last.arg), FALSE)
    /\ MemGet(memory_cache, key_topics(last.arg), TTL, now) = Some(last.result.val)
    /\ read_disk_cache(disk, key_topics(last.arg)) = None

\* C10 as stated: the disk write is fire and forget, the return of the
\* request is not ordered after the end of the disk write: a disk write
\* never ends before the request returns.
C10_ReturnNotAfterDiskWrite ==
    \A i \in 1..Len(last.events) :
        last.events[i].ev = "disk_write" =>
            \E j \in 1..(i - 1) : last.events[j].ev = "return"

\* C10, amended: the disk write is synchronous; it has ended, in success or
\* in failure, before the request returns, so that a successful write is on
\* disk at the return; only its failure is kept from the caller.
C10_DiskWriteEndsBeforeReturn ==
    [][(Served /\ last'.op \in TwoTierOps) =>
          \A i \in 1..Len(last'.events) :
              last'.events[i].ev = "disk_write" =>
                  /\ \A j \in 1..i : last'.events[j].ev # "return"
                  /\ last'.events[Len(last'.events)] = EvReturn(TRUE)
                  /\ last'.result.ok
                  /\ last'.events[i].ok =>
                        read_disk_cache(disk', KeyOf(last'.op, last'.arg))
                            = Some(last'.result.val)]_vars

\* A request returned after its disk write had stored the document.
C10_Witness ==
    /\ last.op = "get_course_materials"
    /\ Len(last.events) = 6
    /\ last.events[5] = EvDiskWrite(key_materials(last.arg), TRUE)
    /\ last.events[6] = EvReturn(TRUE)
    /\ disk_path(key_materials(last.arg)) \in DOMAIN disk
    /\ disk[disk_path(key_materials(last.arg))] = to_string_pretty(last.result.val)

\* C11: with requests in flight at once, a read of the disk tier returns
\* nothing or a whole document that some request handed to the disk tier
\* under that key, never a blend of two.
C11_DiskGetReturnsAStoredDocument ==
    \A t \in Tasks :
        inflight[t].got # None =>
            \E course_id \in Courses :
                <<key_materials(course_id), inflight[t].got[1]>> \in handed

\* Two requests reached their caches and their keys were computed.
KeysCompared ==
    /\ last.op = "cache_key"
    /\ last.result[1] # None
    /\ last.result[2] # None

\* C12 as stated: two requests have the same cache key exactly when they
\* are the same operation with the same parameters.
C12_KeyIsInjectiveInRequest ==
    KeysCompared => (last.result[1] = last.result[2] <=> last.arg[1] = last.arg[2])

\* What a request is about: the operation and its course, or for
\* read_material the file id its parameter names.
Subject(request) ==
    IF request.op = "read_material"
    THEN <<request.op, parse_file_id(request.arg).val>>
    ELSE <<request.op, request.arg>>

\* C12, amended: two requests have the same cache key exactly when they are
\* the same operation on the same course or on the same file id; parameters
\* of read_material that name one file id (bare, in a URL, padded with
\* blanks) share one key.
C12_KeyIsInjectiveInSubject ==
    KeysCompared =>
        (last.result[1] = last.result[2] <=> Subject(last.arg[1]) = Subject(last.arg[2]))

\* The materials and the topics of one course have different keys.
C12_Witness ==
    /\ KeysCompared
    /\ last.arg[1].op = "get_course_materials"
    /\ last.arg[2].op = "get_course_topics"
    /\ last.arg[1].arg = last.arg[2].arg
    /\ last.result[1] # last.result[2]

\* A character that may stand in a path segment unescaped.
SafeChar(c) == is_alphanumeric(c) \/ c = "-" \/ c = "_"

\* C13: every identifier parse_file_id returns is non-empty and made of
\* alphanumerics, '-' and '_' only.
C13_ParsedIdIsSafe ==
    (last.op = "parse_file_id" /\ last.result.ok) =>
        /\ last.result.val # <<>>
        /\ \A i \in 1..Len(last.result.val) : SafeChar(last.result.val[i])

\* The rule table of parse_file_id, stated on positions of the input.

\* The input without the whitespace around it.
Trimmed(raw) ==
    LET inked == {i \in 1..Len(raw) : ~IsWhitespace(raw[i])}
    IN IF inked = {} THEN <<>>
       ELSE SubSeq(raw, CHOOSE i \in inked : \A j \in inked : i <= j,
                        CHOOSE i \in inked : \A j \in inked : i >= j)

\* The positions at which pat occurs in text.
Occurrences(text, pat) ==
    {i \in 1..(Len(text) - Len(pat) + 1) : SubSeq(text, i, i + Len(pat) - 1) = pat}

\* The text after the first occurrence of pat, up to the next sep or to the
\* end; empty if pat does not occur.
SegmentAfter(text, pat, sep) ==
    IF Occurrences(text, pat) = {} THEN <<>>
    ELSE LET first == CHOOSE i \in Occurrences(text, pat) :
                          \A j \in Occurrences(text, pat) : i <= j
             start == first + Len(pat)
             stops == {k \in start..Len(text) : text[k] = sep}
             stop == IF stops = {} THEN Len(text) + 1
                     ELSE CHOOSE k \in stops : \A j \in stops : k <= j
         IN SubSeq(text, start, stop - 1)

IsUrl(text) ==
    \E scheme \in {SchemeHttp, SchemeHttps} :
        Len(text) >= Len(scheme) /\ \A i \in 1..Len(scheme) : text[i] = scheme[i]

\* What the rule table gives for an input: the identifier, or nothing.
RuleTable(raw) ==
    LET text == Trimmed(raw)
    IN CASE text = <<>> -> None
         [] text # <<>> /\ IsUrl(text) ->
               IF SegmentAfter(text, PatD, "/") # <<>>
               THEN Some(SegmentAfter(text, PatD, "/"))
               ELSE IF SegmentAfter(text, PatId, "&") # <<>>
               THEN Some(SegmentAfter(text, PatId, "&"))
               ELSE None
         [] OTHER ->
               IF \A i \in 1..Len(text) : SafeChar(text[i]) THEN Some(text) ELSE None

\* C14: on every input parse_file_id returns the identifier the rule table
\* gives, and fails with InvalidInput where the table gives none.
C14_ParseFollowsRuleTable ==
    last.op = "parse_file_id" =>
        IF RuleTable(last.arg) # None
        THEN last.result = Ok(RuleTable(last.arg)[1])
        ELSE ~last.result.ok /\ last.result.err.variant = "InvalidInput"

\* A URL matching both patterns: the segment after /d/ is returned, not the
\* different text after id=.
C14_Witness ==
    /\ last.op = "parse_file_id"
    /\ IsUrl(Trimmed(last.arg))
    /\ SegmentAfter(Trimmed(last.arg), PatD, "/") # <<>>
    /\ SegmentAfter(Trimmed(last.arg), PatId, "&") # <<>>
    /\ SegmentAfter(Trimmed(last.arg), PatId, "&")
           # SegmentAfter(Trimmed(last.arg), PatD, "/")
    /\ last.result = Ok(SegmentAfter(Trimmed(last.arg), PatD, "/"))

\* C15: a read_material request rejected as InvalidInput issued no remote
\* call.
C15_InvalidInputMakesNoCall ==
    (/\ last.op = "read_material"
     /\ ~last.result.ok
     /\ last.result.err.variant = "InvalidInput") => Calls(last.events) = <<>>

\* A URL without an identifier was rejected.
C15_Witness ==
    /\ last.op = "read_material"
    /\ last.arg = SchemeHttps \o <<"x">>
    /\ ~last.result.ok
    /\ last.result.err.variant = "InvalidInput"
    /\ last.events = <<EvReturn(FALSE)>>

\* The request served last got the metadata of its file.
GotMetadata ==
    /\ last.op = "read_material"
    /\ Calls(last.events) # <<>>
    /\ Calls(last.events)[1].ok

\* The MIME type in that metadata, and the calls issued after it.
ReportedMime == Calls(last.events)[1].resp.val.mime_type

ContentCalls == Tail(Calls(last.events))

\* The request issued exactly one export call with this target; if it
\* succeeded, exportedAs is the target and there is content.
ExportedAs(target) ==
    /\ Len(ContentCalls) = 1
    /\ ContentCalls[1].what = <<"files.export", <<Calls(last.events)[1].what[2], target>>>>
    /\ last.result.ok =>
          /\ last.result.val.exportedAs = Some(target)
          /\ last.result.val.content # JsonNull

\* The request issued exactly one download call; if it succeeded,
\* exportedAs is null and there is content.
Downloaded ==
    /\ Len(ContentCalls) = 1
    /\ ContentCalls[1].what = <<"files.get.media", Calls(last.events)[1].what[2]>>
    /\ last.result.ok =>
          /\ last.result.val.exportedAs = None
          /\ last.result.val.content # JsonNull

\* The request issued no content call and returned metadata only.
MetadataOnly ==
    /\ ContentCalls = <<>>
    /\ last.result.ok
    /\ last.result.val.content = JsonNull
    /\ last.result.val.exportedAs = None
    /\ last.result.val.truncated = FALSE
    /\ last.result.val.note # <<>>

\* C16: the branch of read_material follows from the MIME type alone: a
\* document or presentation is exported as text/plain, a spreadsheet as
\* text/csv, text/* and the five listed application types are downloaded,
\* and every other type, a missing one included, yields metadata only.
C16_BranchFollowsMimeType ==
    GotMetadata =>
        CASE ReportedMime \in {Some(<<"application", "vnd.google-apps.document">>),
                               Some(<<"application", "vnd.google-apps.presentation">>)} ->
                 ExportedAs(<<"text", "plain">>)
          [] ReportedMime = Some(<<"application", "vnd.google-apps.spreadsheet">>) ->
                 ExportedAs(<<"text", "csv">>)
          [] ReportedMime # None /\ ReportedMime[1][1] = "text" -> Downloaded
          [] ReportedMime \in
                 {Some(<<"application", sub>>) :
                      sub \in {"json", "xml", "javascript", "x-yaml", "csv"}} ->
                 Downloaded
          [] OTHER -> MetadataOnly

\* A presentation was exported as plain text.
C16_Witness ==
    /\ GotMetadata
    /\ ReportedMime = Some(MimePresentation)
    /\ last.result.ok
    /\ last.result.val.exportedAs = Some(MimeTextPlain)
    /\ last.result.val.content = JsonString(ShortText)

\* The content call of the request served last failed, or its body could
\* not be read, or its bytes are not UTF-8.
ContentFetchFailed ==
    /\ GotMetadata
    /\ ContentCalls # <<>>
    /\ \/ ~ContentCalls[1].ok
       \/ ContentCalls[1].resp.val.kind = "body_err"
       \/ ~ContentCalls[1].resp.val.utf8

\* C17: when the export or download of read_material fails, or returns
\* bytes that are not valid text, the request fails with a Drive error and
\* nothing is cached: no metadata-only or empty-content result is returned.
C17_ContentFailureIsFatal ==
    ContentFetchFailed =>
        /\ ~last.result.ok
        /\ last.result.err.variant = "DriveApi"
        /\ \A i \in 1..Len(last.events) : last.events[i].ev # "mem_insert"

\* A downloaded file was not valid UTF-8 and the request failed.
C17_Witness ==
    /\ ContentFetchFailed
    /\ ContentCalls[1].what[1] = "files.get.media"
    /\ ContentCalls[1].ok
    /\ ContentCalls[1].resp.val.kind = "bytes"
    /\ ~last.result.ok
    /\ drive_cache = EmptyCache

\* Texts counted in characters.
RECURSIVE CharCount(_)
CharCount(text) == IF text = <<>> THEN 0 ELSE Head(text).n + CharCount(Tail(text))

\* The first k characters of a text.
RECURSIVE CharPrefix(_, _)
CharPrefix(text, k) ==
    IF k = 0 \/ text = <<>> THEN <<>>
    ELSE IF k >= Head(text).n
    THEN <<Head(text)>> \o CharPrefix(Tail(text), k - Head(text).n)
    ELSE <<[Head(text) EXCEPT !.n = k]>>

RECURSIVE ByteCount(_)
ByteCount(text) ==
    IF text = <<>> THEN 0 ELSE Head(text).n * Head(text).w + ByteCount(Tail(text))

\* The first k characters of text are the longest prefix of whole
\* characters within the budget.
LongestWithin(text, k, budget) ==
    /\ ByteCount(CharPrefix(text, k)) <= budget
    /\ k < CharCount(text) => ByteCount(CharPrefix(text, k + 1)) > budget

\* C18: truncate_content returns a text of at most 100 KB as it is, with
\* flag false; of a longer text it returns, with flag true, the longest
\* prefix of whole characters within 100 KB followed by the marker, at most
\* 100 KB plus the marker's 39 bytes in all.
C18_TruncateKeepsLongestPrefix ==
    last.op = "truncate_content" =>
        LET text == last.arg
            out == last.result[1]
            flag == last.result[2]
        IN IF ByteCount(text) <= 100 * 1024
           THEN out = text /\ flag = FALSE
           ELSE /\ flag = TRUE
                /\ ByteCount(out) <= 100 * 1024 + 39
                /\ \E k \in (CharCount(text) - 16)..CharCount(text) :
                      /\ k >= 0
                      /\ LongestWithin(text, k, 100 * 1024)
                      /\ out = CharPrefix(text, k)
                                 \o <<[c |-> "[marker]", w |-> 1, n |-> 39]>>

\* A text was cut before a character that straddles the limit.
C18_Witness ==
    /\ last.op = "truncate_content"
    /\ last.result[2] = TRUE
    /\ ByteCount(last.arg) > 100 * 1024
    /\ ByteCount(last.result[1]) < 100 * 1024 + 39
    /\ Len(last.arg) = 3

\* The kinds of note a result carries.
IsBinaryNote(note) == note # <<>> /\ note[1] = "binary"

IsTruncationNote(note) == note # <<>> /\ note[1] = "truncated"

\* Flag and note of a result agree with its content.
Consistent(result) ==
    /\ result.note = <<>> <=> (result.content # JsonNull /\ ~result.truncated)
    /\ IsBinaryNote(result.note) <=> result.content = JsonNull
    /\ IsTruncationNote(result.note) <=> result.truncated
    /\ result.truncated => result.content # JsonNull

\* C19: in every result read_material returns or caches, the note is empty
\* iff the content was fetched whole, the binary note iff the content is
\* null, the truncation note iff truncated is set, and truncated is set
\* only with content.
C19_FlagAndNoteAgree ==
    /\ (last.op = "read_material" /\ last.result.ok) => Consistent(last.result.val)
    /\ \A file_id \in DOMAIN drive_cache : Consistent(drive_cache[file_id].value)

\* A truncated content was returned with the truncation note.
C19_Witness ==
    /\ last.op = "read_material"
    /\ last.result.ok
    /\ last.result.val.truncated
    /\ IsTruncationNote(last.result.val.note)
    /\ last.result.val.content # JsonNull

\* The request served by this step fetched its result from the remote
\* service.
FetchedResult ==
    /\ Served
    /\ last'.result.ok
    /\ Calls(last'.events) # <<>>

\* The memory tier of the request's client holds the result after the step.
ResultInMemory ==
    IF last'.op = "read_material"
    THEN MemGet(drive_cache', parse_file_id(last'.arg).val, DriveTTL, now)
             = Some(last'.result.val)
    ELSE MemGet(memory_cache', KeyOf(last'.op, last'.arg), TTL, now)
             = Some(last'.result.val)

\* C20: every result fetched successfully is in the memory tier when the
\* request returns; list_courses, get_course_details, get_assignments and
\* read_material neither read nor write the disk tier, which they leave
\* unchanged.
C20_OnlyTwoTierOpsTouchDisk ==
    [][Served =>
          /\ FetchedResult => ResultInMemory
          /\ last'.op \notin TwoTierOps =>
                /\ disk' = disk
                /\ \A i \in 1..Len(last'.events) :
                      last'.events[i].ev \notin {"disk_read", "disk_write"}]_vars

\* get_assignments fetched and cached its composite next to a disk file it
\* did not touch.
C20_Witness ==
    /\ last.op = "get_assignments"
    /\ last.result.ok
    /\ Calls(last.events) # <<>>
    /\ MemGet(memory_cache, key_assignments(last.arg), TTL, now) = Some(last.result.val)
    /\ disk # EmptyCache

\* The events of the submissions calls of the request served last: sent
\* off and returned.
IsSubmissionsEvent(e) ==
    e.ev \in {"issue", "call"} /\ e.what[1] = "submissions.list"

SubmissionsTrace == SelectSeq(last.events, IsSubmissionsEvent)

\* The ids of the first five items of the coursework list received, those
\* without an id left out, in list order.
RECURSIVE IdsOf(_)
IdsOf(list) ==
    IF list = <<>> THEN <<>>
    ELSE (IF Head(list).id = <<>> THEN <<>> ELSE Head(list).id) \o IdsOf(Tail(list))

FirstFiveIds ==
    LET list == unwrap_or_default(CourseWorkReceived.val)
    IN IdsOf(SubSeq(list, 1, IF Len(list) < 5 THEN Len(list) ELSE 5))

\* C21: the submissions calls of one get_assignments request go out one at
\* a time, each after the one before it has returned, for the items of the
\* list in list order, and there are at most five of them.
C21_SubmissionsCallsAreSequential ==
    (FetchedAssignments /\ CourseWorkReceived.ok) =>
        /\ Len(SubmissionsCalls) <= 5
        /\ Len(SubmissionsTrace) = 2 * Len(SubmissionsCalls)
        /\ [j \in 1..Len(SubmissionsCalls) |-> SubmissionsCalls[j].what[2][2]]
               = FirstFiveIds
        /\ \A j \in 1..Len(SubmissionsCalls) :
              /\ SubmissionsTrace[2 * j - 1].ev = "issue"
              /\ SubmissionsTrace[2 * j - 1].what = SubmissionsCalls[j].what
              /\ SubmissionsTrace[2 * j] = SubmissionsCalls[j]

\* A list of more than five items: five calls, the third of which failed
\* before the fourth went out.
C21_Witness ==
    /\ FetchedAssignments
    /\ CourseWorkReceived.ok
    /\ Len(unwrap_or_default(CourseWorkReceived.val)) > 5
    /\ Len(SubmissionsCalls) = 5
    /\ ~SubmissionsCalls[3].ok
    /\ SubmissionsTrace[6] = SubmissionsCalls[3]
    /\ SubmissionsTrace[7].ev = "issue"

\* The request served last is one of the two composites and went to the
\* remote service.
FetchedComposite ==
    /\ last.op \in {"get_assignments", "get_course_details"}
    /\ Calls(last.events) # <<>>

\* Its dependent list call, the second call of the request, failed.
DependentListFailed ==
    /\ FetchedComposite
    /\ Len(Calls(last.events)) >= 2
    /\ ~Calls(last.events)[2].ok

\* C22: a composite request fails only when its courses.get call fails.
\* When the coursework list call fails, get_assignments succeeds with the
\* course and no assignments and issues no submissions call; when the
\* announcements call fails, get_course_details succeeds with the course
\* and no announcements.
C22_OnlyCourseGetIsFatal ==
    LET calls == Calls(last.events)
    IN /\ FetchedComposite =>
             /\ calls[1].what[1] = "courses.get"
             /\ last.result.ok <=> calls[1].ok
       /\ DependentListFailed =>
             /\ last.result.ok
             /\ last.result.val.course = calls[1].resp.val
             /\ Len(calls) = 2
             /\ SubmissionsTrace = <<>>
             /\ last.op = "get_assignments" =>
                    /\ calls[2].what[1] = "courseWork.list"
                    /\ last.result.val.assignments = <<>>
             /\ last.op = "get_course_details" =>
                    /\ calls[2].what[1] = "announcements.list"
                    /\ last.result.val.announcements = <<>>

\* get_assignments got the course and then a failure of the coursework
\* list call.
C22_Witness ==
    /\ last.op = "get_assignments"
    /\ DependentListFailed
    /\ Calls(last.events)[1].ok
    /\ Calls(last.events)[2].what[1] = "courseWork.list"
    /\ last.result.ok

\* The step serves a request that returns an error.
ServedError == Served /\ ~last'.result.ok

\* C23: a request that returns an error leaves both tiers as they were:
\* the memory tier of either client holds the same entries, inserted at the
\* same instants, and the cache directory holds the same files with the
\* same text.
C23_ErrorLeavesCachesAlone ==
    [][ServedError =>
           /\ memory_cache' = memory_cache
           /\ drive_cache' = drive_cache
           /\ disk' = disk]_vars

\* A fetch of materials failed while the memory tier still held an entry
\* for the key, expired, and the cache directory a damaged file for it.
C23_Witness ==
    /\ last.op = "get_course_materials"
    /\ ~last.result.ok
    /\ Len(Calls(last.events)) = 1
    /\ key_materials(last.arg) \in DOMAIN memory_cache
    /\ disk_path(key_materials(last.arg)) \in DOMAIN disk

Composites == {"get_assignments", "get_course_details"}

\* The step serves the request that the given earlier one was, again.
AskedAgain(earlier) ==
    /\ Served
    /\ last'.op = earlier.op
    /\ last'.arg = earlier.arg

\* C24: a composite returned with an empty placeholder for a failed
\* dependent call is kept in the memory tier under its key; as long as that
\* entry is live, a request for the same course returns the same document
\* and issues no remote call, and the entry stays as it is for the requests
\* after it.
C24_DegradedCompositeIsServedAgain ==
    [][(Served /\ last'.op \in Composites) =>
          LET key == KeyOf(last'.op, last'.arg)
              cached == MemGet(memory_cache, key, TTL, now)
          IN /\ Degraded(last') =>
                   /\ key \in DOMAIN memory_cache'
                   /\ memory_cache'[key] =
                          [value |-> last'.result.val, insertedAt |-> now]
             /\ cached # None => memory_cache' = memory_cache
             /\ (cached # None /\ AskedAgain(last)
                   /\ (Degraded(last) \/ AskedAgain(last.prior))) =>
                   /\ last'.result = last.result
                   /\ Calls(last'.events) = <<>>]_vars

\* get_assignments was answered from the memory tier, some time after the
\* request before it, for the same course, had been answered with a
\* degraded document.
C24_Witness ==
    /\ last.op = "get_assignments"
    /\ last.prior.degraded
    /\ last.prior.op = last.op
    /\ last.prior.arg = last.arg
    /\ last.events[1] = EvHit(key_assignments(last.arg))
    /\ Calls(last.events) = <<>>
    /\ last.result.ok
    /\ now > 0

\* The step in which task t, having fetched, inserts into the memory tier.
Inserts(t) == inflight[t].pc = "insert" /\ inflight'[t].pc = "create"

\* The step in which task t, having fetched and inserted, returns.
ReturnsFetched(t) ==
    /\ inflight[t].pc = "write"
    /\ inflight'[t].pc = "idle"
    /\ inflight'[t].returned # None

\* The step in which task t backfills the memory tier from a file.
Backfills(t) == inflight[t].pc = "disk" /\ inflight'[t].got # None

\* Both tasks have returned a document they fetched themselves, for the
\* same course, after both had missed.
BothFetched ==
    /\ \A t \in Tasks : inflight[t].pc = "idle" /\ inflight[t].returned # None
    /\ inflight[1].returned # inflight[2].returned
    /\ \A t \in Tasks : inflight[t].got = None

\* The documents under the key of course_id that the tasks returned last.
ReturnedFor(course_id) ==
    {inflight[t].returned[1] : t \in {u \in Tasks : inflight[u].returned # None}}

\* C25: requests for the same key are not held back by one another.  Each
\* request that fetched returns the document the service gave to it, not the
\* other's; its insert leaves the memory tier with one entry for the key,
\* holding its document, and no step but an insert, a backfill from a file
\* or a restart changes that entry; so once two requests that both fetched have returned, the entry
\* holds the document of the one that inserted last, which is one of the two
\* returned.
C25_LastInsertWins ==
    /\ [][/\ \A t \in Tasks :
             LET key == key_materials(inflight[t].course_id)
             IN /\ Inserts(t) =>
                      /\ DOMAIN memory_cache' = DOMAIN memory_cache \cup {key}
                      /\ memory_cache'[key].value = MaterialsOf(inflight[t].req)
                /\ ReturnsFetched(t) =>
                      /\ inflight'[t].returned = Some(MaterialsOf(inflight[t].req))
                      /\ memory_cache' = memory_cache
          /\ memory_cache' # memory_cache =>
                \/ \E t \in Tasks : Inserts(t) \/ Backfills(t)
                \/ memory_cache' = EmptyCache]_vars
    /\ [](BothFetched =>
             \A course_id \in Courses :
                 /\ key_materials(course_id) \in DOMAIN memory_cache
                 /\ memory_cache[key_materials(course_id)].value
                        \in ReturnedFor(course_id))

\* Two requests in flight at once both missed and both fetched; both have
\* returned, each its own document, and the memory tier holds the document
\* of the request that started first, which inserted last.
C25_Witness ==
    /\ BothFetched
    /\ \E t \in Tasks :
          /\ inflight[t].returned = Some(MaterialsOf(1))
          /\ \E u \in Tasks \ {t} : inflight[u].returned = Some(MaterialsOf(2))
    /\ memory_cache[key_materials(<<"a">>)].value = MaterialsOf(1)

====
